---- MODULE Spec2Model ----
(***************************************************************************)
(* A model of pointillism_gcode_generator.py: the colour reduction of      *)
(* main(), the dab sequencing and G-code emission of gen_gcode().          *)
(*                                                                         *)
(* Units.  Lengths are whole millimetres (the source's floats hold whole   *)
(* numbers for every input drawn here).  Accumulated travel is held in     *)
(* hundredths of a millimetre, math.hypot being rounded down to that       *)
(* resolution (exact whenever the hop is axis-parallel).  Dwell seconds    *)
(* are held in hundredths of a second.                                     *)
(***************************************************************************)
EXTENDS Integers, Sequences, FiniteSets, TLC

(***************************************************************************)
(* Bounds of the model.                                                    *)
(***************************************************************************)
MaxCols == 4
MaxRows == 2
MaxCells == 4

(***************************************************************************)
(* Module constants of the source (lines 16-66).                           *)
(***************************************************************************)
STATION_X0 == 0
STATION_Y0 == 400
STATION_DX == 100
STATION_DY == 0

DIP_OFFSET_X == 0
DIP_OFFSET_Y == 0
DIP_OFFSET_Z == -3

BLOT_OFFSET_X == 0
BLOT_OFFSET_Y == 60
BLOT_OFFSET_Z == -2

Z_PICK == -5
Z_SAFE == 15
Z_TRAVEL == 10
Z_PREPAINT == 2
Z_PAINT == -1

FEED_TRAVEL == 2500
FEED_Z == 600
\* 0.05 s, in hundredths of a second
DAB_DWELL_S == 5
\* the source multiplies seconds by 1000.0; the model multiplies hundredths
\* of a second by TIME_SCALE and divides by 100
TIME_SCALE == 1000

WHITE_THRESHOLD == 240

COLOR_ORDER_RGB6 == <<"black", "blue", "red", "green", "yellow", "white">>
COLOR_ORDER_CMYK == <<"yellow", "magenta", "cyan", "black">>

PALETTES == [rgb6 |-> COLOR_ORDER_RGB6, cmyk |-> COLOR_ORDER_CMYK]

\* the keys of the dict PALETTE_RGB in insertion (= iteration) order
PALETTE_RGB_keys == <<"red", "green", "blue", "yellow", "black", "white">>

PALETTE_RGB == [red    |-> <<220, 20, 60>>,
                green  |-> <<34, 139, 34>>,
                blue   |-> <<30, 144, 255>>,
                yellow |-> <<255, 215, 0>>,
                black  |-> <<0, 0, 0>>,
                white  |-> <<255, 255, 255>>]

\* the keys of the dict color_points built by the cmyk branch of main()
CMYK_keys == <<"cyan", "magenta", "yellow", "black">>

Range(s) == {s[k] : k \in 1..Len(s)}

(***************************************************************************)
(* State.                                                                  *)
(***************************************************************************)
VARIABLES
    pc,            \* position in main() / gen_gcode()
    palette,       \* args.palette
    grid_cols,     \* number of columns of the toolpath grid
    grid_rows,     \* number of rows of the toolpath grid
    args,          \* args.dot_pitch_mm, origin_x, origin_y, margin_mm
    RE_DIP_EVERY_N_DOTS,     \* module global, line 42
    RE_DIP_AFTER_TRAVEL_MM,  \* module global, line 43
    CLEAN_AT_END,            \* module global, line 44
    im_resized,    \* the resampled image: cell -> RGB triple
    dithered,      \* cmyk: the four dithered planes Cd, Md, Yd, Kd
    color_points,  \* colour -> list of cells
    lines,         \* the instruction stream
    ci,            \* index of the current colour in color_order
    si,            \* index in serp of the cell the dab loop is at
    dots_since,
    travel_since,
    last           \* <<>> for None, else <<x_mm, y_mm>>

vars == <<pc, palette, grid_cols, grid_rows, args, RE_DIP_EVERY_N_DOTS,
          RE_DIP_AFTER_TRAVEL_MM, CLEAN_AT_END, im_resized, dithered,
          color_points, lines, ci, si, dots_since, travel_since, last>>

(***************************************************************************)
(* Inputs drawn by Init.                                                   *)
(***************************************************************************)
\* the grids: every shape of at most MaxCols columns, MaxRows rows and
\* MaxCells cells
Grids == {wh \in (1..MaxCols) \X (1..MaxRows) : wh[1] * wh[2] <= MaxCells}

Cells(w, h) == (0..(w - 1)) \X (0..(h - 1))

\* RGB samples of the resampled image: black, blank canvas, and a sample at
\* the same distance from green and blue
Samples == {<<0, 0, 0>>, <<255, 255, 255>>, <<0, 138, 144>>}

\* the inks a cell may get from the four dithered planes
InkSets == {{}, {"yellow", "black"}, {"cyan", "magenta"}}

\* (dot_pitch_mm, RE_DIP_AFTER_TRAVEL_MM): the source's defaults 3.0 and
\* 180.0, a coarse pitch that reaches the travel threshold, and the same
\* with the travel trigger disabled
TravelConfigs == {<<3, 180>>, <<90, 180>>, <<90, 0>>}

\* RE_DIP_EVERY_N_DOTS: a threshold small grids reach, and the source's 120
CountConfigs == {2, 120}

\* channel levels of the argument of nearest_palette_color
Levels == {0, 20, 76, 122, 124, 138, 144, 145, 158, 161, 197, 237, 239, 240, 255}

(***************************************************************************)
(* make_stations (lines 68-92).  Dwell times in hundredths of a second.    *)
(***************************************************************************)
IndexOf(s, e) == CHOOSE k \in 1..Len(s) : s[k] = e

\* a station whose safe height is its dip depth
Station_safe_at_dip(name, i) ==
    LET x == STATION_X0 + i * STATION_DX
        y == STATION_Y0 + i * STATION_DY
    IN  [name |-> name, x |-> x, y |-> y,
         z_pick |-> Z_PICK, z_safe |-> DIP_OFFSET_Z,
         dip_x |-> x + DIP_OFFSET_X, dip_y |-> y + DIP_OFFSET_Y,
         dip_z |-> DIP_OFFSET_Z,
         blot_x |-> x + BLOT_OFFSET_X, blot_y |-> y + BLOT_OFFSET_Y,
         blot_z |-> BLOT_OFFSET_Z,
         dip_dwell_s |-> 100, blot_dwell_s |-> 50]

Station(name, i) ==
    LET x == STATION_X0 + i * STATION_DX
        y == STATION_Y0 + i * STATION_DY
    IN  [name |-> name, x |-> x, y |-> y,
         z_pick |-> Z_PICK, z_safe |-> Z_SAFE,
         dip_x |-> x + DIP_OFFSET_X, dip_y |-> y + DIP_OFFSET_Y,
         dip_z |-> DIP_OFFSET_Z,
         blot_x |-> x + BLOT_OFFSET_X, blot_y |-> y + BLOT_OFFSET_Y,
         blot_z |-> BLOT_OFFSET_Z,
         dip_dwell_s |-> 100, blot_dwell_s |-> 50]

make_stations(p) ==
    LET colors == PALETTES[p]
    IN  [color \in Range(colors) |-> Station(color, IndexOf(colors, color) - 1)]

\* main, line 234
stations == make_stations(palette)

(***************************************************************************)
(* nearest_palette_color (lines 98-105).  best starts as None ("None"),    *)
(* best_d2 as 1e18, held here as the largest 32-bit integer: both exceed   *)
(* every squared distance, which is at most 3 * 255^2.                     *)
(***************************************************************************)
best_d2_init == 2147483647

d2_of(c, name) ==
    LET P == PALETTE_RGB[name]
    IN  (c[1] - P[1]) * (c[1] - P[1]) + (c[2] - P[2]) * (c[2] - P[2])
        + (c[3] - P[3]) * (c[3] - P[3])

RECURSIVE nearest_loop(_, _, _, _)
nearest_loop(c, k, b, b_d2) ==
    IF k > Len(PALETTE_RGB_keys) THEN b
    ELSE LET name == PALETTE_RGB_keys[k]
             d2 == d2_of(c, name)
         IN  IF d2 < b_d2 THEN nearest_loop(c, k + 1, name, d2)
             ELSE nearest_loop(c, k + 1, b, b_d2)

\* the loop with "d2 <= best_d2": the last minimum wins
RECURSIVE nearest_loop_le(_, _, _, _)
nearest_loop_le(c, k, b, b_d2) ==
    IF k > Len(PALETTE_RGB_keys) THEN b
    ELSE LET name == PALETTE_RGB_keys[k]
             d2 == d2_of(c, name)
         IN  IF d2 <= b_d2 THEN nearest_loop_le(c, k + 1, name, d2)
             ELSE nearest_loop_le(c, k + 1, b, b_d2)

nearest_palette_color_last_min(c) == nearest_loop_le(c, 1, "None", best_d2_init)

\* the loop started from a best_d2 that some samples never beat
nearest_palette_color_small_init(c) == nearest_loop(c, 1, "None", 10000)

nearest_palette_color(c) == nearest_loop(c, 1, "None", best_d2_init)

(***************************************************************************)
(* The fractions of rgb_to_cmyk and of the dither, as exact quotients      *)
(* <<numerator, denominator>> in lowest terms with a positive denominator  *)
(* (the source computes them in binary floating point).                    *)
(***************************************************************************)
RECURSIVE Gcd(_, _)
Gcd(a, b) == IF b = 0 THEN a ELSE Gcd(b, a % b)

Abs(a) == IF a < 0 THEN -a ELSE a

Rat(n, d) ==
    LET g == Gcd(Abs(n), Abs(d))
        s == IF d < 0 THEN -1 ELSE 1
    IN  <<(s * n) \div g, (s * d) \div g>>

RAdd(a, b) ==
    LET g == Gcd(a[2], b[2])
    IN  Rat(a[1] * (b[2] \div g) + b[1] * (a[2] \div g), (a[2] \div g) * b[2])

RSub(a, b) == RAdd(a, <<-b[1], b[2]>>)
RMul(a, b) == Rat(a[1] * b[1], a[2] * b[2])
RDiv(a, b) == Rat(a[1] * b[2], a[2] * b[1])
RGe(a, b) == a[1] * b[2] >= b[1] * a[2]
RMax(a, b) == IF RGe(a, b) THEN a ELSE b

(***************************************************************************)
(* rgb_to_cmyk (lines 107-115).                                            *)
(***************************************************************************)
\* rgb_to_cmyk with K taken from the smallest channel
rgb_to_cmyk_min_channel(r, g, b) ==
    LET R == Rat(r, 255)
        G == Rat(g, 255)
        B == Rat(b, 255)
        m == IF RGe(R, G) THEN (IF RGe(G, B) THEN B ELSE G)
                          ELSE (IF RGe(R, B) THEN B ELSE R)
        K == RSub(<<1, 1>>, m)
    IN  IF RGe(K, <<1, 1>>) THEN <<(<<0, 1>>), <<0, 1>>, <<0, 1>>, <<1, 1>>>>
        ELSE <<RDiv(RSub(RSub(<<1, 1>>, R), K), RSub(<<1, 1>>, K)),
               RDiv(RSub(RSub(<<1, 1>>, G), K), RSub(<<1, 1>>, K)),
               RDiv(RSub(RSub(<<1, 1>>, B), K), RSub(<<1, 1>>, K)),
               K>>

rgb_to_cmyk(r, g, b) ==
    LET R == Rat(r, 255)
        G == Rat(g, 255)
        B == Rat(b, 255)
        K == RSub(<<1, 1>>, RMax(R, RMax(G, B)))
    IN  IF RGe(K, <<1, 1>>) THEN <<(<<0, 1>>), <<0, 1>>, <<0, 1>>, <<1, 1>>>>
        ELSE <<RDiv(RSub(RSub(<<1, 1>>, R), K), RSub(<<1, 1>>, K)),
               RDiv(RSub(RSub(<<1, 1>>, G), K), RSub(<<1, 1>>, K)),
               RDiv(RSub(RSub(<<1, 1>>, B), K), RSub(<<1, 1>>, K)),
               K>>

(***************************************************************************)
(* floyd_steinberg_dither_channel (lines 117-130).  A plane is a function  *)
(* from the cells <<x, y>> of the grid.                                    *)
(***************************************************************************)
\* the diffusion step adding nothing
diffuse_none(arr, cell, err, k) == arr

\* arr[cell] += err*k/16
diffuse(arr, cell, err, k) ==
    [arr EXCEPT ![cell] = RAdd(@, RDiv(RMul(err, <<k, 1>>), <<16, 1>>))]

\* the loops of lines 120-129 from the k-th cell in row-major order on;
\* gives the working plane arr and the plane out as the loops leave them
RECURSIVE fs_loop(_, _, _, _, _)
fs_loop(arr, out, w, h, k) ==
    IF k > w * h THEN [arr |-> arr, out |-> out]
    ELSE LET x == (k - 1) % w
             y == (k - 1) \div w
             old == arr[<<x, y>>]
             new == IF RGe(old, <<1, 2>>) THEN 1 ELSE 0
             err == RSub(old, <<new, 1>>)
             a1 == IF x + 1 < w THEN diffuse(arr, <<x + 1, y>>, err, 7) ELSE arr
             a2 == IF y + 1 < h /\ x > 0
                   THEN diffuse(a1, <<x - 1, y + 1>>, err, 3) ELSE a1
             a3 == IF y + 1 < h THEN diffuse(a2, <<x, y + 1>>, err, 5) ELSE a2
             a4 == IF y + 1 < h /\ x + 1 < w
                   THEN diffuse(a3, <<x + 1, y + 1>>, err, 1) ELSE a3
         IN  fs_loop(a4, [out EXCEPT ![<<x, y>>] = new], w, h, k + 1)

\* line 118 as "arr = img_chan": the loops write to the caller's lists
arr_aliases_img_chan == "img_chan"

\* line 118: the list object the loops write to; arr is built as new row
\* lists holding the values of img_chan
arr_object == "arr"

\* the two list objects when the function returns: the loops read and
\* write the object arr only
fs_objects(img_chan, w, h) ==
    LET r == fs_loop(img_chan, [cell \in DOMAIN img_chan |-> 0], w, h, 1)
    IN  [[o \in {"img_chan", "arr"} |-> img_chan] EXCEPT ![arr_object] = r.arr]

\* line 130: return out
floyd_steinberg_dither_channel(img_chan, w, h) ==
    fs_loop(img_chan, [cell \in DOMAIN img_chan |-> 0], w, h, 1).out

(***************************************************************************)
(* serpentine_indices (lines 132-138).                                     *)
(***************************************************************************)
Reverse(s) == [k \in 1..Len(s) |-> s[Len(s) + 1 - k]]

\* the row without "if j%2==1: row.reverse()"
serp_row_raster(w, j) == [k \in 1..w |-> <<k - 1, j>>]

serp_row(w, j) ==
    LET row == [k \in 1..w |-> <<k - 1, j>>]
    IN  IF j % 2 = 1 THEN Reverse(row) ELSE row

RECURSIVE serp_rows(_, _, _)
serp_rows(w, h, j) ==
    IF j >= h THEN <<>> ELSE serp_row(w, j) \o serp_rows(w, h, j + 1)

serpentine_indices(w, h) == serp_rows(w, h, 0)

(***************************************************************************)
(* main: the colour reduction (lines 237-246 and 263-269).                 *)
(***************************************************************************)
\* the cells in the order of "for y in range(grid_rows): for x in
\* range(grid_cols)"
RowMajor(w, h) == [k \in 1..(w * h) |-> <<(k - 1) % w, (k - 1) \div w>>]

is_background(c) ==
    c[1] >= WHITE_THRESHOLD /\ c[2] >= WHITE_THRESHOLD /\ c[3] >= WHITE_THRESHOLD

RECURSIVE reduce_rgb6(_, _, _, _)
reduce_rgb6(im, cells, k, cp) ==
    IF k > Len(cells) THEN cp
    ELSE IF is_background(im[cells[k]]) THEN reduce_rgb6(im, cells, k + 1, cp)
    ELSE LET col == nearest_palette_color(im[cells[k]])
         IN  reduce_rgb6(im, cells, k + 1,
                         [cp EXCEPT ![col] = Append(@, cells[k])])

RECURSIVE reduce_cmyk(_, _, _, _)
reduce_cmyk(d, cells, k, cp) ==
    IF k > Len(cells) THEN cp
    ELSE reduce_cmyk(d, cells, k + 1,
             [c \in DOMAIN cp |->
                 IF d[c][cells[k]] = 1 THEN Append(cp[c], cells[k]) ELSE cp[c]])

(***************************************************************************)
(* gen_gcode: the instruction lines.  A line is a record: op names the     *)
(* line form, the other fields hold its numbers (0 or "" when the form     *)
(* has none).  A comment line holds its kind in txt.                       *)
(***************************************************************************)
Blank == [op |-> "", txt |-> "", color |-> "", n |-> 0,
          x |-> 0, y |-> 0, z |-> 0, f |-> 0, p |-> 0]

Comment(kind, color, n) ==
    [Blank EXCEPT !.op = "comment", !.txt = kind, !.color = color, !.n = n]

Word(w) == [Blank EXCEPT !.op = w]

\* g(f"G0 Z{Z_TRAVEL:.3f}"), lines 149 and 205
rapid_z(z) == [Blank EXCEPT !.op = "G0Z", !.z = z]

\* line 157
move_xy(x, y) == [Blank EXCEPT !.op = "G0XY", !.x = x, !.y = y, !.f = FEED_TRAVEL]

\* line 158, feed defaulted to FEED_Z
move_z(z) == [Blank EXCEPT !.op = "G1Z", !.z = z, !.f = FEED_Z]

\* line 159; s in hundredths of a second, P in the stream's milliseconds
dwell(s) == [Blank EXCEPT !.op = "G4", !.p = (s * TIME_SCALE) \div 100]

\* lines 151-156
origin_x == args.origin_x + args.margin_mm
origin_y == args.origin_y + args.margin_mm

xy_of_pixel(px, py) ==
    <<origin_x + px * args.dot_pitch_mm, origin_y + py * args.dot_pitch_mm>>

\* lines 161-164
pickup_brush(color) ==
    LET st == stations[color]
    IN  <<Comment("Pickup", color, 0),
          move_xy(st.x, st.y), move_z(st.z_safe), move_z(st.z_pick),
          dwell(30), move_z(st.z_safe)>>

\* lines 166-169
return_brush(color) ==
    LET st == stations[color]
    IN  <<Comment("Return", color, 0),
          move_xy(st.x, st.y), move_z(st.z_safe), move_z(st.z_pick),
          dwell(30), move_z(st.z_safe)>>

\* dip_brush leaving the dip cup at travel height only
dip_brush_low_transit(color) ==
    LET st == stations[color]
    IN  <<Comment("Dip", color, 0),
          move_xy(st.dip_x, st.dip_y), move_z(st.z_safe), move_z(st.dip_z),
          dwell(st.dip_dwell_s), move_z(Z_TRAVEL),
          move_xy(st.blot_x, st.blot_y), move_z(st.z_safe), move_z(st.blot_z),
          dwell(st.blot_dwell_s), move_z(st.z_safe)>>

\* lines 171-175
dip_brush(color) ==
    LET st == stations[color]
    IN  <<Comment("Dip", color, 0),
          move_xy(st.dip_x, st.dip_y), move_z(st.z_safe), move_z(st.dip_z),
          dwell(st.dip_dwell_s), move_z(st.z_safe),
          move_xy(st.blot_x, st.blot_y), move_z(st.z_safe), move_z(st.blot_z),
          dwell(st.blot_dwell_s), move_z(st.z_safe)>>

\* paint_dot retracting to the pre-paint height only
paint_dot_short_retract(x, y, dwell_time) ==
    <<move_xy(x, y), move_z(Z_PREPAINT), move_z(Z_PAINT), dwell(dwell_time),
      move_z(Z_PREPAINT)>>

\* paint_dot descending to paint depth without the stop at pre-paint height
paint_dot_no_prepaint(x, y, dwell_time) ==
    <<move_xy(x, y), move_z(Z_PAINT), dwell(dwell_time), move_z(Z_TRAVEL)>>

\* lines 177-182
paint_dot(x, y, dwell_time) ==
    <<move_xy(x, y), move_z(Z_PREPAINT), move_z(Z_PAINT), dwell(dwell_time),
      move_z(Z_TRAVEL)>>

\* line 202
clean_at_end(color) ==
    LET st == stations[color]
    IN  <<move_xy(st.blot_x, st.blot_y), move_z(st.z_safe), move_z(st.blot_z),
          dwell(30), move_z(st.z_safe)>>

\* lines 146-149
preamble ==
    <<Comment("title", "", 0),
      [Comment("grid", "", args.dot_pitch_mm) EXCEPT !.x = grid_cols, !.y = grid_rows],
      Word("G21"), Word("G90"), Word("G94"), rapid_z(Z_TRAVEL)>>

\* postamble returning to the origin before the move to travel height
postamble_origin_first ==
    <<[Blank EXCEPT !.op = "G0XY"], rapid_z(Z_TRAVEL), Word("M2")>>

\* lines 205-207; "G0 X0 Y0" carries no feed word
postamble ==
    <<rapid_z(Z_TRAVEL), [Blank EXCEPT !.op = "G0XY"], Word("M2")>>

(***************************************************************************)
(* math.hypot, in hundredths of a millimetre, rounded down.                *)
(***************************************************************************)
RECURSIVE isqrt_between(_, _, _)
isqrt_between(v, lo, hi) ==
    \* the largest r in lo..hi with r * r <= v, given lo * lo <= v
    IF lo >= hi THEN lo
    ELSE LET mid == (lo + hi + 1) \div 2
         IN  IF mid * mid <= v THEN isqrt_between(v, mid, hi)
             ELSE isqrt_between(v, lo, mid - 1)

hypot(dx, dy) == isqrt_between((dx * dx + dy * dy) * 10000, 0, 46340)

(***************************************************************************)
(* gen_gcode: the loops (lines 184-203).                                   *)
(***************************************************************************)
\* the colours in the key order of the dict color_points
color_order_dict_keys == IF palette = "rgb6" THEN PALETTE_RGB_keys ELSE CMYK_keys

\* the color_order argument of lines 247 and 270
color_order == PALETTES[palette]

serp == serpentine_indices(grid_cols, grid_rows)

\* "(px,py) not in pts"
in_pts(cell, pts) == \E k \in 1..Len(pts) : pts[k] = cell

\* the cells of serp after index from, whether or not they are in pts
dab_indices_every_cell(from, pts) == {k \in (from + 1)..Len(serp) : TRUE}

\* the indices after `from` at which the loop over serp does not "continue"
dab_indices(from, pts) ==
    {k \in (from + 1)..Len(serp) : in_pts(serp[k], pts)}

Min(S) == CHOOSE m \in S : \A o \in S : m <= o

\* line 197 without the count trigger
redip_due_travel_only(dots, travel) ==
    RE_DIP_AFTER_TRAVEL_MM > 0 /\ travel >= RE_DIP_AFTER_TRAVEL_MM * 100

\* line 197 with "dots_since > RE_DIP_EVERY_N_DOTS"
redip_due_count_late(dots, travel) ==
    \/ dots > RE_DIP_EVERY_N_DOTS
    \/ (RE_DIP_AFTER_TRAVEL_MM > 0 /\ travel >= RE_DIP_AFTER_TRAVEL_MM * 100)

\* line 197 with "travel_since > RE_DIP_AFTER_TRAVEL_MM"
redip_due_travel_late(dots, travel) ==
    \/ dots >= RE_DIP_EVERY_N_DOTS
    \/ (RE_DIP_AFTER_TRAVEL_MM > 0 /\ travel > RE_DIP_AFTER_TRAVEL_MM * 100)

\* line 197
redip_due(dots, travel) ==
    \/ dots >= RE_DIP_EVERY_N_DOTS
    \/ (RE_DIP_AFTER_TRAVEL_MM > 0 /\ travel >= RE_DIP_AFTER_TRAVEL_MM * 100)

(***************************************************************************)
(* Initial states: main() after argument parsing and image resampling      *)
(* (lines 214-235).  For the cmyk palette the four dithered planes are     *)
(* drawn directly.                                                         *)
(***************************************************************************)
planes_of(inks) ==
    [c \in Range(CMYK_keys) |->
        [cell \in DOMAIN inks |-> IF c \in inks[cell] THEN 1 ELSE 0]]

Init ==
    /\ pc = "main"
    /\ palette \in {"rgb6", "cmyk"}
    /\ \E wh \in Grids : grid_cols = wh[1] /\ grid_rows = wh[2]
    /\ \E tc \in TravelConfigs :
          /\ args = [dot_pitch_mm |-> tc[1], origin_x |-> 0, origin_y |-> 0,
                     margin_mm |-> 0]
          /\ RE_DIP_AFTER_TRAVEL_MM = tc[2]
    /\ RE_DIP_EVERY_N_DOTS \in CountConfigs
    /\ CLEAN_AT_END \in BOOLEAN
    /\ IF palette = "rgb6"
       THEN /\ im_resized \in [Cells(grid_cols, grid_rows) -> Samples]
            /\ dithered = <<>>
       ELSE /\ im_resized = <<>>
            /\ \E inks \in [Cells(grid_cols, grid_rows) -> InkSets] :
                  dithered = planes_of(inks)
    /\ color_points = <<>>
    /\ lines = <<>>
    /\ ci = 0
    /\ si = 0
    /\ dots_since = 0
    /\ travel_since = 0
    /\ last = <<>>

config_vars == <<palette, grid_cols, grid_rows, args, RE_DIP_EVERY_N_DOTS,
                 RE_DIP_AFTER_TRAVEL_MM, CLEAN_AT_END, im_resized, dithered>>

(***************************************************************************)
(* main, rgb6 branch: lines 237-246.                                       *)
(***************************************************************************)
MainRgb6 ==
    /\ pc = "main"
    /\ palette = "rgb6"
    /\ color_points' =
          reduce_rgb6(im_resized, RowMajor(grid_cols, grid_rows), 1,
                      [c \in Range(PALETTE_RGB_keys) |-> <<>>])
    /\ pc' = "gen"
    /\ UNCHANGED <<config_vars, lines, ci, si, dots_since, travel_since, last>>

(***************************************************************************)
(* main, cmyk branch: lines 263-269.                                       *)
(***************************************************************************)
MainCmyk ==
    /\ pc = "main"
    /\ palette = "cmyk"
    /\ color_points' =
          reduce_cmyk(dithered, RowMajor(grid_cols, grid_rows), 1,
                      [c \in Range(CMYK_keys) |-> <<>>])
    /\ pc' = "gen"
    /\ UNCHANGED <<config_vars, lines, ci, si, dots_since, travel_since, last>>

(***************************************************************************)
(* gen_gcode, lines 145-149 and 184: the preamble.                         *)
(***************************************************************************)
Preamble ==
    /\ pc = "gen"
    /\ lines' = lines \o preamble
    /\ ci' = 1
    /\ pc' = "color"
    /\ UNCHANGED <<config_vars, color_points, si, dots_since, travel_since,
                   last>>

(***************************************************************************)
(* lines 185-187: a colour without points is skipped.                      *)
(***************************************************************************)
ColorSkip ==
    /\ pc = "color"
    /\ ci <= Len(color_order)
    /\ color_points[color_order[ci]] = <<>>
    /\ ci' = ci + 1
    /\ UNCHANGED <<config_vars, pc, color_points, lines, si, dots_since,
                   travel_since, last>>

\* ColorBegin without "if not pts: continue"
ColorBegin_no_skip ==
    /\ pc = "color"
    /\ ci <= Len(color_order)
    /\ LET color == color_order[ci]
       IN  lines' = lines
                    \o <<Comment("header", color, Len(color_points[color]))>>
                    \o pickup_brush(color) \o dip_brush(color)
    /\ dots_since' = 0
    /\ travel_since' = 0
    /\ last' = <<>>
    /\ si' = 0
    /\ pc' = "dots"
    /\ UNCHANGED <<config_vars, color_points, ci>>

(***************************************************************************)
(* lines 188-191: header, pickup, initial dip, counters reset.             *)
(***************************************************************************)
ColorBegin ==
    /\ pc = "color"
    /\ ci <= Len(color_order)
    /\ color_points[color_order[ci]] # <<>>
    /\ LET color == color_order[ci]
       IN  lines' = lines
                    \o <<Comment("header", color, Len(color_points[color]))>>
                    \o pickup_brush(color) \o dip_brush(color)
    /\ dots_since' = 0
    /\ travel_since' = 0
    /\ last' = <<>>
    /\ si' = 0
    /\ pc' = "dots"
    /\ UNCHANGED <<config_vars, color_points, ci>>

(***************************************************************************)
(* lines 192-198: the loop advances to the next cell of serp that is in    *)
(* pts, adds the hop to travel_since and re-dips when a trigger is due.    *)
(***************************************************************************)
DotCheck ==
    /\ pc = "dots"
    /\ LET color == color_order[ci]
           pts == color_points[color]
       IN  /\ dab_indices(si, pts) # {}
           /\ LET k == Min(dab_indices(si, pts))
                  xy == xy_of_pixel(serp[k][1], serp[k][2])
                  travel == IF last # <<>>
                            THEN travel_since + hypot(xy[1] - last[1], xy[2] - last[2])
                            ELSE travel_since
              IN  /\ si' = k
                  /\ IF redip_due(dots_since, travel)
                     THEN /\ lines' = lines \o dip_brush(color)
                          /\ dots_since' = 0
                          /\ travel_since' = 0
                     ELSE /\ lines' = lines
                          /\ dots_since' = dots_since
                          /\ travel_since' = travel
    /\ pc' = "paint"
    /\ UNCHANGED <<config_vars, color_points, ci, last>>

(***************************************************************************)
(* lines 199-200: the dab.                                                 *)
(***************************************************************************)
DotPaint ==
    /\ pc = "paint"
    /\ LET xy == xy_of_pixel(serp[si][1], serp[si][2])
       IN  /\ lines' = lines \o paint_dot(xy[1], xy[2], DAB_DWELL_S)
           /\ last' = xy
    /\ dots_since' = dots_since + 1
    /\ pc' = "dots"
    /\ UNCHANGED <<config_vars, color_points, ci, si, travel_since>>

\* ColorEnd returning the brush before the end-of-run blot
ColorEnd_return_first ==
    /\ pc = "dots"
    /\ LET color == color_order[ci]
       IN  /\ dab_indices(si, color_points[color]) = {}
           /\ lines' = lines
                       \o return_brush(color)
                       \o (IF CLEAN_AT_END THEN clean_at_end(color) ELSE <<>>)
    /\ si' = Len(serp)
    /\ ci' = ci + 1
    /\ pc' = "color"
    /\ UNCHANGED <<config_vars, color_points, dots_since, travel_since, last>>

(***************************************************************************)
(* lines 201-203: serp is exhausted; end-of-run blot and return.           *)
(***************************************************************************)
ColorEnd ==
    /\ pc = "dots"
    /\ LET color == color_order[ci]
       IN  /\ dab_indices(si, color_points[color]) = {}
           /\ lines' = lines
                       \o (IF CLEAN_AT_END THEN clean_at_end(color) ELSE <<>>)
                       \o return_brush(color)
    /\ si' = Len(serp)
    /\ ci' = ci + 1
    /\ pc' = "color"
    /\ UNCHANGED <<config_vars, color_points, dots_since, travel_since, last>>

(***************************************************************************)
(* lines 205-208: the postamble; gen_gcode returns.                        *)
(***************************************************************************)
Postamble ==
    /\ pc = "color"
    /\ ci > Len(color_order)
    /\ lines' = lines \o postamble
    /\ pc' = "done"
    /\ UNCHANGED <<config_vars, color_points, ci, si, dots_since, travel_since,
                   last>>

(***************************************************************************)
(* main, lines 272-274: the stream is written to args.output; the file's   *)
(* text is lines once pc = "written".                                      *)
(***************************************************************************)
WriteOutput ==
    /\ pc = "done"
    /\ pc' = "written"
    /\ UNCHANGED <<config_vars, color_points, lines, ci, si, dots_since,
                   travel_since, last>>

Next ==
    \/ MainRgb6
    \/ MainCmyk
    \/ Preamble
    \/ ColorSkip
    \/ ColorBegin
    \/ DotCheck
    \/ DotPaint
    \/ ColorEnd
    \/ Postamble
    \/ WriteOutput

Spec == Init /\ [][Next]_vars

(***************************************************************************)
(* The same program on a grid of one cell in the rgb6 palette, the cell's  *)
(* sample drawn from Levels^3.                                             *)
(***************************************************************************)
InitSamples ==
    /\ pc = "main"
    /\ palette = "rgb6"
    /\ grid_cols = 1
    /\ grid_rows = 1
    /\ args = [dot_pitch_mm |-> 3, origin_x |-> 0, origin_y |-> 0, margin_mm |-> 0]
    /\ RE_DIP_EVERY_N_DOTS = 120
    /\ RE_DIP_AFTER_TRAVEL_MM = 180
    /\ CLEAN_AT_END = TRUE
    /\ im_resized \in [Cells(1, 1) -> Levels \X Levels \X Levels]
    /\ dithered = <<>>
    /\ color_points = <<>>
    /\ lines = <<>>
    /\ ci = 0
    /\ si = 0
    /\ dots_since = 0
    /\ travel_since = 0
    /\ last = <<>>

NextSamples ==
    \/ MainRgb6
    \/ Preamble
    \/ ColorSkip
    \/ ColorBegin
    \/ DotCheck
    \/ DotPaint
    \/ ColorEnd
    \/ Postamble
    \/ WriteOutput

SpecSamples == InitSamples /\ [][NextSamples]_vars

(***************************************************************************)
(* main, cmyk branch, lines 250-262: the four channel planes of the        *)
(* resampled image and their dither.                                       *)
(***************************************************************************)
\* Cchan, Mchan, Ychan, Kchan (lines 250-258) for i = 1..4
channel(im, i) ==
    [cell \in DOMAIN im |-> rgb_to_cmyk(im[cell][1], im[cell][2], im[cell][3])[i]]

\* the plane whose dither decides the dabs of a process colour
channel_of(c) == IndexOf(<<"cyan", "magenta", "yellow", "black">>, c)

MainDither ==
    /\ pc = "cmyk"
    /\ palette = "cmyk"
    /\ dithered' =
          [c \in Range(CMYK_keys) |->
              floyd_steinberg_dither_channel(channel(im_resized, channel_of(c)),
                                             grid_cols, grid_rows)]
    /\ pc' = "main"
    /\ UNCHANGED <<palette, grid_cols, grid_rows, args, RE_DIP_EVERY_N_DOTS,
                   RE_DIP_AFTER_TRAVEL_MM, CLEAN_AT_END, im_resized,
                   color_points, lines, ci, si, dots_since, travel_since, last>>

(***************************************************************************)
(* main, lines 228-232: the grid is sized from the canvas and the pitch.   *)
(***************************************************************************)
\* int(round(a/b)) for b # 0: the quotient rounded to the nearest integer,
\* a tie going to the even one
int_round(a, b) ==
    LET n == IF b < 0 THEN -a ELSE a
        d == Abs(b)
        f == n \div d
        r == n - f * d
    IN  IF 2 * r < d THEN f
        ELSE IF 2 * r > d THEN f + 1
        ELSE IF f % 2 = 0 THEN f ELSE f + 1

Max(a, b) == IF a >= b THEN a ELSE b

usable_w == Max(0, args.width_mm - 2 * args.margin_mm)
usable_h == Max(0, args.height_mm - 2 * args.margin_mm)

\* the command lines: pitch, canvas width and height, margin
Pitches == {-3, 0, 2}
Widths == {0, 1, 3, 5}
Heights == {0, 2, 4}
Margins == {0, 1}

\* a zero pitch raises ZeroDivisionError at line 230; otherwise the grid
\* is clamped to at least one column and one row and the image, whatever
\* it shows, is resampled to it
MainSize ==
    /\ pc = "size"
    /\ IF args.dot_pitch_mm = 0
       THEN /\ pc' = "error"
            /\ UNCHANGED <<grid_cols, grid_rows, im_resized>>
       ELSE /\ grid_cols' = Max(1, int_round(usable_w, args.dot_pitch_mm))
            /\ grid_rows' = Max(1, int_round(usable_h, args.dot_pitch_mm))
            /\ im_resized' \in [Cells(grid_cols', grid_rows') -> Samples]
            /\ pc' = IF palette = "cmyk" THEN "cmyk" ELSE "main"
    /\ UNCHANGED <<palette, args, RE_DIP_EVERY_N_DOTS, RE_DIP_AFTER_TRAVEL_MM,
                   CLEAN_AT_END, dithered, color_points, lines, ci, si,
                   dots_since, travel_since, last>>

InitArgs ==
    /\ pc = "size"
    /\ palette \in {"rgb6", "cmyk"}
    /\ grid_cols = 0
    /\ grid_rows = 0
    /\ \E p \in Pitches, w \in Widths, h \in Heights, m \in Margins :
          args = [dot_pitch_mm |-> p, origin_x |-> 0, origin_y |-> 0,
                  margin_mm |-> m, width_mm |-> w, height_mm |-> h]
    /\ RE_DIP_EVERY_N_DOTS = 120
    /\ RE_DIP_AFTER_TRAVEL_MM = 180
    /\ CLEAN_AT_END = TRUE
    /\ im_resized = <<>>
    /\ dithered = <<>>
    /\ color_points = <<>>
    /\ lines = <<>>
    /\ ci = 0
    /\ si = 0
    /\ dots_since = 0
    /\ travel_since = 0
    /\ last = <<>>

NextArgs ==
    \/ MainSize
    \/ MainRgb6
    \/ MainDither
    \/ MainCmyk
    \/ Preamble
    \/ ColorSkip
    \/ ColorBegin
    \/ DotCheck
    \/ DotPaint
    \/ ColorEnd
    \/ Postamble
    \/ WriteOutput

SpecArgs == InitArgs /\ [][NextArgs]_vars

(***************************************************************************)
(* The same program in the cmyk palette from the resampled image on: a     *)
(* grid of one cell with its sample drawn from Levels^3, and grids of four *)
(* to six cells with samples drawn from DitherSamples.                     *)
(***************************************************************************)
DitherGrids == {<<1, 1>>, <<4, 1>>, <<2, 2>>, <<3, 2>>}

\* two greys, a background grey and an orange
DitherSamples == {<<178, 178, 178>>, <<186, 186, 186>>, <<240, 240, 240>>,
                  <<200, 60, 0>>}

InitCmyk ==
    /\ pc = "cmyk"
    /\ palette = "cmyk"
    /\ \E wh \in DitherGrids : grid_cols = wh[1] /\ grid_rows = wh[2]
    /\ args = [dot_pitch_mm |-> 3, origin_x |-> 0, origin_y |-> 0, margin_mm |-> 0]
    /\ RE_DIP_EVERY_N_DOTS = 120
    /\ RE_DIP_AFTER_TRAVEL_MM = 180
    /\ CLEAN_AT_END = TRUE
    /\ im_resized \in [Cells(grid_cols, grid_rows) ->
                          IF grid_cols * grid_rows = 1
                          THEN Levels \X Levels \X Levels
                          ELSE DitherSamples]
    /\ dithered = <<>>
    /\ color_points = <<>>
    /\ lines = <<>>
    /\ ci = 0
    /\ si = 0
    /\ dots_since = 0
    /\ travel_since = 0
    /\ last = <<>>

NextCmyk ==
    \/ MainDither
    \/ MainCmyk
    \/ Preamble
    \/ ColorSkip
    \/ ColorBegin
    \/ DotCheck
    \/ DotPaint
    \/ ColorEnd
    \/ Postamble
    \/ WriteOutput

SpecCmyk == InitCmyk /\ [][NextCmyk]_vars

(***************************************************************************)
(* calibration_swatch.py: the constants and make_stations (lines 19-85).   *)
(***************************************************************************)
swatch_STATION_X0 == 0
swatch_STATION_Y0 == 400
swatch_STATION_DX == 100
swatch_STATION_DY == 0
swatch_DIP_OFFSET_X == 0
swatch_DIP_OFFSET_Y == 0
swatch_DIP_OFFSET_Z == -3
swatch_BLOT_OFFSET_X == 60
swatch_BLOT_OFFSET_Y == 0
swatch_BLOT_OFFSET_Z == -2
swatch_Z_PICK == -5
swatch_Z_SAFE == 15

swatch_COLOR_ORDER_RGB6 == <<"black", "blue", "red", "green", "yellow", "white">>
swatch_COLOR_ORDER_CMYK == <<"yellow", "magenta", "cyan", "black">>

swatch_PALETTES == [rgb6 |-> swatch_COLOR_ORDER_RGB6, cmyk |-> swatch_COLOR_ORDER_CMYK]

swatch_Station(name, i) ==
    LET x == swatch_STATION_X0 + i * swatch_STATION_DX
        y == swatch_STATION_Y0 + i * swatch_STATION_DY
    IN  [name |-> name, x |-> x, y |-> y,
         z_pick |-> swatch_Z_PICK, z_safe |-> swatch_Z_SAFE,
         dip_x |-> x + swatch_DIP_OFFSET_X, dip_y |-> y + swatch_DIP_OFFSET_Y,
         dip_z |-> swatch_DIP_OFFSET_Z,
         blot_x |-> x + swatch_BLOT_OFFSET_X, blot_y |-> y + swatch_BLOT_OFFSET_Y,
         blot_z |-> swatch_BLOT_OFFSET_Z,
         dip_dwell_s |-> 100, blot_dwell_s |-> 50]

swatch_make_stations(p) ==
    LET colors == swatch_PALETTES[p]
    IN  [color \in Range(colors) |->
            swatch_Station(color, IndexOf(colors, color) - 1)]

(***************************************************************************)
(* paint_mixing_grid.py: the constants and make_stations (lines 21-102).   *)
(***************************************************************************)
mixing_STATION_X0 == 400
mixing_STATION_Y0 == 40
mixing_STATION_DX == 0
mixing_STATION_DY == 40
mixing_DIP_OFFSET_X == 0
mixing_DIP_OFFSET_Y == 0
mixing_DIP_OFFSET_Z == -3
mixing_BLOT_OFFSET_X == 60
mixing_BLOT_OFFSET_Y == 0
mixing_BLOT_OFFSET_Z == -2
mixing_Z_PICK == -5
mixing_Z_SAFE == 15

mixing_COLOR_ORDER_RGB6 == <<"red", "yellow", "blue", "white">>
mixing_COLOR_ORDER_CMYK == <<"cyan", "magenta", "yellow", "black">>

mixing_PALETTES == [rgb6 |-> mixing_COLOR_ORDER_RGB6, cmyk |-> mixing_COLOR_ORDER_CMYK]

mixing_Station(name, i) ==
    LET x == mixing_STATION_X0 + i * mixing_STATION_DX
        y == mixing_STATION_Y0 + i * mixing_STATION_DY
    IN  [name |-> name, x |-> x, y |-> y,
         z_pick |-> mixing_Z_PICK, z_safe |-> mixing_Z_SAFE,
         dip_x |-> x + mixing_DIP_OFFSET_X, dip_y |-> y + mixing_DIP_OFFSET_Y,
         dip_z |-> mixing_DIP_OFFSET_Z,
         blot_x |-> x + mixing_BLOT_OFFSET_X, blot_y |-> y + mixing_BLOT_OFFSET_Y,
         blot_z |-> mixing_BLOT_OFFSET_Z,
         dip_dwell_s |-> 100, blot_dwell_s |-> 50]

mixing_make_stations(p) ==
    LET colors == mixing_PALETTES[p]
    IN  [color \in Range(colors) |->
            mixing_Station(color, IndexOf(colors, color) - 1)]

(***************************************************************************)
(* gen_gcode on a grid of two columns and one row, entered from main after *)
(* the colour reduction or called with an assignment of the caller's       *)
(* making: lists of up to two cells, a cell possibly twice, possibly the   *)
(* cell <<2, 0>> outside the grid, for the first and the last colour of    *)
(* the paint order.                                                        *)
(***************************************************************************)
PointLists ==
    LET cells == Cells(2, 1) \cup {<<2, 0>>}
    IN  {<<>>} \cup {<<a>> : a \in cells} \cup {<<a, b>> : a, b \in cells}

InitGen ==
    /\ palette \in {"rgb6", "cmyk"}
    /\ grid_cols = 2
    /\ grid_rows = 1
    /\ args = [dot_pitch_mm |-> 3, origin_x |-> 0, origin_y |-> 0, margin_mm |-> 0]
    /\ RE_DIP_EVERY_N_DOTS = 120
    /\ RE_DIP_AFTER_TRAVEL_MM = 180
    /\ CLEAN_AT_END = TRUE
    /\ \/ /\ pc = "main"
          /\ IF palette = "rgb6"
             THEN /\ im_resized \in [Cells(2, 1) -> Samples]
                  /\ dithered = <<>>
             ELSE /\ im_resized = <<>>
                  /\ \E inks \in [Cells(2, 1) -> InkSets] :
                        dithered = planes_of(inks)
          /\ color_points = <<>>
       \/ /\ pc = "gen"
          /\ im_resized = <<>>
          /\ dithered = <<>>
          /\ \E first \in PointLists, final \in PointLists :
                color_points =
                    [c \in Range(color_order) |->
                        IF c = color_order[1] THEN first
                        ELSE IF c = color_order[Len(color_order)] THEN final
                        ELSE <<>>]
    /\ lines = <<>>
    /\ ci = 0
    /\ si = 0
    /\ dots_since = 0
    /\ travel_since = 0
    /\ last = <<>>

SpecGen == InitGen /\ [][Next]_vars

(***************************************************************************)
(* Reading the instruction stream back.                                    *)
(***************************************************************************)
IsZ(l) == l.op \in {"G0Z", "G1Z"}
IsXY(l) == l.op = "G0XY"

\* the index of the last Z move among s[1..i], 0 when there is none: the
\* line that sets the tracked Z of the line after s[i]
RECURSIVE LastZIdx(_, _)
LastZIdx(s, i) ==
    IF i = 0 THEN 0 ELSE IF IsZ(s[i]) THEN i ELSE LastZIdx(s, i - 1)

XYMoves(s) == {i \in 1..Len(s) : IsXY(s[i])}

\* the Z move s[k] is the retract that ends a dab
EndsDab(s, k) ==
    /\ k > 2
    /\ s[k - 1].op = "G4"
    /\ s[k - 2].op = "G1Z"
    /\ s[k - 2].z = Z_PAINT

\* s[i] is the XY move of a dab
IsDabMove(s, i) ==
    /\ i + 2 <= Len(s)
    /\ IsXY(s[i])
    /\ s[i + 1].op = "G1Z" /\ s[i + 1].z = Z_PREPAINT
    /\ s[i + 2].op = "G1Z" /\ s[i + 2].z = Z_PAINT

(***************************************************************************)
(* C1 as stated: in the finished stream no X/Y move is emitted while the   *)
(* tracked Z is below the station safe height Z_SAFE.                      *)
(***************************************************************************)
C1_NoXYBelowSafe ==
    pc = "done" =>
        \A i \in XYMoves(lines) :
            LET k == LastZIdx(lines, i - 1)
            IN  k > 0 /\ lines[k].z >= Z_SAFE

(***************************************************************************)
(* C1 amended: in the finished stream no X/Y move is emitted while the     *)
(* tracked Z is below the travel height Z_TRAVEL, and an X/Y move is       *)
(* emitted below Z_SAFE only when the Z move before it is the preamble's   *)
(* or postamble's move to Z_TRAVEL or the retract that ends a dab; every   *)
(* X/Y move that follows a station operation is at Z_SAFE.                 *)
(***************************************************************************)
C1_BelowSafeOnlyAfterDabOrFrame ==
    pc = "done" =>
        \A i \in XYMoves(lines) :
            LET k == LastZIdx(lines, i - 1)
            IN  /\ k > 0
                /\ lines[k].z >= Z_TRAVEL
                /\ lines[k].z < Z_SAFE =>
                      \/ lines[k].op = "G0Z"
                      \/ EndsDab(lines, k)

\* a finished stream with an X/Y move at Z_SAFE after a station operation
\* and an X/Y move at Z_TRAVEL after a dab
C1_Witness ==
    /\ pc = "done"
    /\ \E i \in XYMoves(lines) :
          LET k == LastZIdx(lines, i - 1)
          IN  k > 0 /\ lines[k].z = Z_SAFE /\ lines[k].op = "G1Z"
    /\ \E i \in XYMoves(lines) :
          LET k == LastZIdx(lines, i - 1)
          IN  k > 0 /\ lines[k].z = Z_TRAVEL /\ EndsDab(lines, k)

(***************************************************************************)
(* C2: in the finished stream every X/Y move is preceded by a Z move, the  *)
(* first being the preamble's move to Z_TRAVEL, and the tracked Z at every *)
(* X/Y move is at or above Z_TRAVEL.                                       *)
(***************************************************************************)
C2_XYAtOrAboveTravel ==
    pc = "done" =>
        /\ \A i \in XYMoves(lines) :
              LET k == LastZIdx(lines, i - 1)
              IN  k > 0 /\ lines[k].z >= Z_TRAVEL
        /\ \E k \in 1..Len(lines) :
              /\ lines[k] = rapid_z(Z_TRAVEL)
              /\ \A j \in 1..(k - 1) : ~IsXY(lines[j]) /\ ~IsZ(lines[j])

\* a finished stream in which a dab's X/Y move follows another dab's retract
C2_Witness ==
    /\ pc = "done"
    /\ \E i \in XYMoves(lines) :
          /\ IsDabMove(lines, i)
          /\ EndsDab(lines, LastZIdx(lines, i - 1))

(***************************************************************************)
(* Reading the colour assignment back.                                     *)
(***************************************************************************)
\* the palette colours at the minimum squared distance from sample c
Minimisers(c) ==
    {name \in Range(PALETTE_RGB_keys) :
        \A o \in Range(PALETTE_RGB_keys) : d2_of(c, name) <= d2_of(c, o)}

\* the member of S that comes first in the sequence order
EarliestIn(order, S) == order[Min({k \in 1..Len(order) : order[k] \in S})]

\* the colours whose point list holds the cell
AssignedColours(cell) ==
    {c \in DOMAIN color_points : in_pts(cell, color_points[c])}

Occurrences(cell, pts) == Cardinality({k \in 1..Len(pts) : pts[k] = cell})

AtOrAboveWhite(c) == c[1] >= 240 /\ c[2] >= 240 /\ c[3] >= 240

Reduced == pc = "gen" /\ palette = "rgb6"

(***************************************************************************)
(* C3 as stated: a cell whose sample is at the same minimum distance from  *)
(* two or more palette colours is assigned the one that comes earliest in  *)
(* the paint order black, blue, red, green, yellow, white.                 *)
(***************************************************************************)
C3_TieGoesToPaintOrder ==
    Reduced =>
        \A cell \in DOMAIN im_resized :
            (~AtOrAboveWhite(im_resized[cell])
             /\ Cardinality(Minimisers(im_resized[cell])) >= 2)
            => AssignedColours(cell)
                  = {EarliestIn(COLOR_ORDER_RGB6, Minimisers(im_resized[cell]))}

(***************************************************************************)
(* C3 amended: such a cell is assigned the tied colour that comes earliest *)
(* in the iteration order of PALETTE_RGB: red, green, blue, yellow, black, *)
(* white.                                                                  *)
(***************************************************************************)
C3_TieGoesToDictOrder ==
    Reduced =>
        \A cell \in DOMAIN im_resized :
            (~AtOrAboveWhite(im_resized[cell])
             /\ Cardinality(Minimisers(im_resized[cell])) >= 2)
            => AssignedColours(cell)
                  = {EarliestIn(<<"red", "green", "blue", "yellow", "black", "white">>,
                                Minimisers(im_resized[cell]))}

\* a cell at the same distance from red and black has been classified
C3_Witness ==
    /\ Reduced
    /\ \E cell \in DOMAIN im_resized :
          /\ Minimisers(im_resized[cell]) = {"red", "black"}
          /\ AssignedColours(cell) = {"red"}

(***************************************************************************)
(* C4: after the rgb6 reduction every cell whose three channels are all at *)
(* or above the background threshold is in no colour's list, and every     *)
(* other cell is exactly once in the list of exactly one of the six        *)
(* palette colours, a colour at the minimum squared distance from the      *)
(* cell's sample.                                                          *)
(***************************************************************************)
C4_ClassificationTotalAndNearest ==
    Reduced =>
        /\ DOMAIN color_points = Range(PALETTE_RGB_keys)
        /\ \A cell \in DOMAIN im_resized :
              IF AtOrAboveWhite(im_resized[cell])
              THEN AssignedColours(cell) = {}
              ELSE \E c \in Minimisers(im_resized[cell]) :
                      /\ AssignedColours(cell) = {c}
                      /\ Occurrences(cell, color_points[c]) = 1

\* a sample that is not background has been classified as white
C4_Witness ==
    /\ Reduced
    /\ \E cell \in DOMAIN im_resized :
          /\ ~AtOrAboveWhite(im_resized[cell])
          /\ AssignedColours(cell) = {"white"}

(***************************************************************************)
(* Reading a colour's block back from the finished stream.                 *)
(***************************************************************************)
Painted(c) == color_points[c] # <<>>

IsComment(l, kind, c) == l.op = "comment" /\ l.txt = kind /\ l.color = c

\* the index of the header comment of colour c, and of the last line of
\* its return
HeaderIdx(c) == CHOOSE i \in 1..Len(lines) : IsComment(lines[i], "header", c)
ReturnIdx(c) == CHOOSE i \in 1..Len(lines) : IsComment(lines[i], "Return", c)
BlockLast(c) == ReturnIdx(c) + 5

SortedSeq(S) ==
    [k \in 1..Cardinality(S) |->
        CHOOSE e \in S : Cardinality({o \in S : o <= e}) = k]

\* the indices of the X/Y moves of the dabs of colour c, in stream order
DabSeq(c) ==
    SortedSeq({i \in HeaderIdx(c)..BlockLast(c) : IsDabMove(lines, i)})

\* a re-dip lies between dab j-1 and dab j of the dab sequence D of colour c
ReDipBefore(D, c, j) ==
    /\ j >= 2
    /\ \E m \in D[j - 1]..D[j] : IsComment(lines[m], "Dip", c)

\* the hop from dab j-1 to dab j, in hundredths of a millimetre
Hop(D, j) ==
    hypot(lines[D[j]].x - lines[D[j - 1]].x, lines[D[j]].y - lines[D[j - 1]].y)

\* the travel over the hops a+1 .. b
RECURSIVE Travel(_, _, _)
Travel(D, a, b) == IF b <= a THEN 0 ELSE Travel(D, a, b - 1) + Hop(D, b)

\* the first dab of the run of n dabs that holds dab j
RunStart(j, n) == ((j - 1) \div n) * n + 1

\* the last dab before dab j that followed the pickup or a re-dip
LastConditioned(D, c, j) ==
    CHOOSE r \in 1..(j - 1) :
        /\ r = 1 \/ ReDipBefore(D, c, r)
        /\ \A m \in (r + 1)..(j - 1) : ~ReDipBefore(D, c, m)

\* no iteration of the dab loop finds the travel trigger due when re-dips come
\* after every n dabs
NoTravelTrigger(D, n) ==
    \/ RE_DIP_AFTER_TRAVEL_MM = 0
    \/ \A j \in 1..Len(D) :
          (j - 1) % n # 0 =>
              Travel(D, RunStart(j, n), j) < RE_DIP_AFTER_TRAVEL_MM * 100

(***************************************************************************)
(* C5: in the finished stream, a colour with more dabs than                *)
(* RE_DIP_EVERY_N_DOTS = N whose travel never reaches the travel threshold *)
(* (or whose travel trigger is disabled) has a re-dip before dab j exactly *)
(* when j = k*N + 1 for some k >= 1.                                       *)
(***************************************************************************)
C5_ReDipAtMultiplesOfN ==
    pc = "done" =>
        \A c \in Range(color_order) :
            Painted(c) =>
                LET D == DabSeq(c)
                    N == RE_DIP_EVERY_N_DOTS
                IN  (Len(D) > N /\ NoTravelTrigger(D, N)) =>
                        \A j \in 1..Len(D) :
                            ReDipBefore(D, c, j) <=> (j > 1 /\ (j - 1) % N = 0)

\* a colour of four dabs with N = 2 and a positive travel threshold that is
\* never reached: a re-dip before the third dab
C5_Witness ==
    /\ pc = "done"
    /\ RE_DIP_AFTER_TRAVEL_MM > 0
    /\ RE_DIP_EVERY_N_DOTS = 2
    /\ \E c \in Range(color_order) :
          /\ Painted(c)
          /\ Len(DabSeq(c)) = 4
          /\ NoTravelTrigger(DabSeq(c), 2)
          /\ ReDipBefore(DabSeq(c), c, 3)
          /\ ~ReDipBefore(DabSeq(c), c, 4)

(***************************************************************************)
(* C6: for a colour with fewer dabs than RE_DIP_EVERY_N_DOTS, in the       *)
(* finished stream a re-dip lies before dab j exactly when the travel      *)
(* threshold is positive and the travel over the hops since the last       *)
(* pickup or re-dip, the hop to dab j included, has reached it; and in the *)
(* dab loop, when a dip has just been emitted before a dab, both counters  *)
(* are zero.                                                               *)
(***************************************************************************)
C6_ReDipOnTravel ==
    /\ pc = "done" =>
          \A c \in Range(color_order) :
              Painted(c) =>
                  LET D == DabSeq(c)
                  IN  Len(D) < RE_DIP_EVERY_N_DOTS =>
                          /\ ~ReDipBefore(D, c, 1)
                          /\ \A j \in 2..Len(D) :
                                ReDipBefore(D, c, j) <=>
                                    /\ RE_DIP_AFTER_TRAVEL_MM > 0
                                    /\ Travel(D, LastConditioned(D, c, j), j)
                                          >= RE_DIP_AFTER_TRAVEL_MM * 100
    /\ (/\ pc = "paint"
        /\ Len(color_points[color_order[ci]]) < RE_DIP_EVERY_N_DOTS
        /\ lines[Len(lines) - 1].op = "G4"
        /\ lines[Len(lines) - 2].z = BLOT_OFFSET_Z)
       => (dots_since = 0 /\ travel_since = 0)

\* a colour of three or more dabs, fewer than N, with a re-dip before the
\* third dab and none before the second
C6_Witness ==
    /\ pc = "done"
    /\ \E c \in Range(color_order) :
          /\ Painted(c)
          /\ Len(DabSeq(c)) >= 3
          /\ Len(DabSeq(c)) < RE_DIP_EVERY_N_DOTS
          /\ ~ReDipBefore(DabSeq(c), c, 2)
          /\ ReDipBefore(DabSeq(c), c, 3)

(***************************************************************************)
(* C7: in the finished stream a colour with no points has no comment line  *)
(* (header, pickup, dip, return) and no X/Y move to its pickup, dip or     *)
(* blot position, and every dab lies in the block of a colour that has     *)
(* points.                                                                 *)
(***************************************************************************)
StationXYs(c) ==
    {<<stations[c].x, stations[c].y>>,
     <<stations[c].dip_x, stations[c].dip_y>>,
     <<stations[c].blot_x, stations[c].blot_y>>}

DabMoves == {i \in 1..Len(lines) : IsDabMove(lines, i)}

C7_UnusedColourOmitted ==
    pc = "done" =>
        /\ \A c \in Range(color_order) :
              ~Painted(c) =>
                  \A i \in 1..Len(lines) :
                      /\ lines[i].color # c
                      /\ IsXY(lines[i]) => <<lines[i].x, lines[i].y>> \notin StationXYs(c)
        /\ \A i \in DabMoves :
              \E c \in Range(color_order) :
                  Painted(c) /\ HeaderIdx(c) < i /\ i < ReturnIdx(c)

\* the 2 x 2 grid [black, white, white, black] in the rgb6 palette: two
\* dabs, and only black's comment lines
C7_Witness ==
    /\ pc = "done"
    /\ palette = "rgb6"
    /\ grid_cols = 2 /\ grid_rows = 2
    /\ im_resized = [cell \in Cells(2, 2) |->
                        IF cell[1] = cell[2] THEN <<0, 0, 0>> ELSE <<255, 255, 255>>]
    /\ Cardinality(DabMoves) = 2
    /\ \A i \in 1..Len(lines) : lines[i].color \in {"", "black"}
    /\ \E i \in 1..Len(lines) : IsComment(lines[i], "Pickup", "black")

(***************************************************************************)
(* C8: serpentine_indices(w, h) lists every cell of the grid exactly once, *)
(* by increasing row, a row's columns ascending when the row index is even *)
(* and descending when it is odd; and in the finished stream the dabs of   *)
(* each colour come in that order of their cells.                          *)
(***************************************************************************)
SerpBefore(a, b) ==
    \/ a[2] < b[2]
    \/ /\ a[2] = b[2]
       /\ IF a[2] % 2 = 0 THEN a[1] < b[1] ELSE a[1] > b[1]

\* the grid cell of the X/Y move lines[i]
CellOf(i) ==
    <<(lines[i].x - args.origin_x - args.margin_mm) \div args.dot_pitch_mm,
      (lines[i].y - args.origin_y - args.margin_mm) \div args.dot_pitch_mm>>

C8_SerpentineOrder ==
    pc = "done" =>
        /\ Len(serp) = grid_cols * grid_rows
        /\ Range(serp) = Cells(grid_cols, grid_rows)
        /\ \A a, b \in 1..Len(serp) : a < b => SerpBefore(serp[a], serp[b])
        /\ \A c \in Range(color_order) :
              Painted(c) =>
                  LET D == DabSeq(c)
                  IN  \A j \in 2..Len(D) : SerpBefore(CellOf(D[j - 1]), CellOf(D[j]))

\* a colour that paints all four cells of a 2 x 2 grid: the third dab is
\* at cell (1,1) and the fourth at cell (0,1)
C8_Witness ==
    /\ pc = "done"
    /\ grid_cols = 2 /\ grid_rows = 2
    /\ \E c \in Range(color_order) :
          /\ Painted(c)
          /\ Len(DabSeq(c)) = 4
          /\ CellOf(DabSeq(c)[3]) = <<1, 1>>
          /\ CellOf(DabSeq(c)[4]) = <<0, 1>>

(***************************************************************************)
(* C9: reading a block: the shapes of its parts.                           *)
(***************************************************************************)
ZAt(i, z) == lines[i].op = "G1Z" /\ lines[i].z = z
DwellAt(i, p) == lines[i].op = "G4" /\ lines[i].p = p

\* X/Y move, Z to safe height, Z to depth, dwell, Z to safe height
StationOpAt(i, x, y, z_safe, depth, p) ==
    /\ i >= 1 /\ i + 4 <= Len(lines)
    /\ IsXY(lines[i]) /\ lines[i].x = x /\ lines[i].y = y
    /\ ZAt(i + 1, z_safe)
    /\ ZAt(i + 2, depth)
    /\ DwellAt(i + 3, p)
    /\ ZAt(i + 4, z_safe)

PickupAt(i, c) ==
    /\ i >= 1 /\ i <= Len(lines)
    /\ IsComment(lines[i], "Pickup", c)
    /\ StationOpAt(i + 1, stations[c].x, stations[c].y, stations[c].z_safe,
                   stations[c].z_pick, 300)

ReturnAt(i, c) ==
    /\ i >= 1 /\ i <= Len(lines)
    /\ IsComment(lines[i], "Return", c)
    /\ StationOpAt(i + 1, stations[c].x, stations[c].y, stations[c].z_safe,
                   stations[c].z_pick, 300)

\* dip + blot
DipAt(i, c) ==
    /\ i >= 1 /\ i <= Len(lines)
    /\ IsComment(lines[i], "Dip", c)
    /\ StationOpAt(i + 1, stations[c].dip_x, stations[c].dip_y,
                   stations[c].z_safe, stations[c].dip_z, 1000)
    /\ StationOpAt(i + 6, stations[c].blot_x, stations[c].blot_y,
                   stations[c].z_safe, stations[c].blot_z, 500)

\* blot only
CleanAt(i, c) ==
    StationOpAt(i, stations[c].blot_x, stations[c].blot_y, stations[c].z_safe,
                stations[c].blot_z, 300)

DabAt(i) ==
    /\ i >= 1 /\ i + 4 <= Len(lines)
    /\ IsDabMove(lines, i)
    /\ lines[i + 3].op = "G4"
    /\ lines[i + 4].op = "G1Z"

\* reads dabs, and re-dips that stand between two dabs, from index i on;
\* gives the index after the last dab read and the number of dabs read
RECURSIVE ReadDabs(_, _, _)
ReadDabs(c, i, n) ==
    IF DabAt(i) THEN ReadDabs(c, i + 5, n + 1)
    ELSE IF n >= 1 /\ DipAt(i, c) /\ DabAt(i + 11) THEN ReadDabs(c, i + 11, n)
    ELSE [next |-> i, dabs |-> n]

CountComments(kind, c) ==
    Cardinality({i \in 1..Len(lines) : IsComment(lines[i], kind, c)})

\* the cells of the grid among the points of colour c
GridPoints(c) == Range(color_points[c]) \cap Cells(grid_cols, grid_rows)

(***************************************************************************)
(* C9: in the finished stream the block of every colour that has points is *)
(* its header, one pickup, one dip + blot, then its dabs with re-dips only *)
(* between two dabs, then a blot-only conditioning when CLEAN_AT_END is    *)
(* set, then one return, which ends the block; the colour has one pickup   *)
(* and one return in the whole stream, the block holds one dab per cell of *)
(* the colour, and every dab of the stream is in such a block.             *)
(***************************************************************************)
BlockWellFormed(c) ==
    LET h == HeaderIdx(c)
        body == ReadDabs(c, h + 18, 0)
        ret == IF CLEAN_AT_END THEN body.next + 5 ELSE body.next
    IN  /\ CountComments("header", c) = 1
        /\ CountComments("Pickup", c) = 1
        /\ CountComments("Return", c) = 1
        /\ PickupAt(h + 1, c)
        /\ DipAt(h + 7, c)
        /\ body.dabs >= 1
        /\ body.dabs = Cardinality(GridPoints(c))
        /\ CLEAN_AT_END => CleanAt(body.next, c)
        /\ ReturnAt(ret, c)
        /\ ret + 6 <= Len(lines)
        /\ lines[ret + 6].op \in {"comment", "G0Z"}
        /\ lines[ret + 6].op = "comment" => lines[ret + 6].txt = "header"

SumDabs(S) ==
    LET RECURSIVE sum(_)
        sum(T) == IF T = {} THEN 0
                  ELSE LET c == CHOOSE o \in T : TRUE
                       IN  Cardinality(GridPoints(c)) + sum(T \ {c})
    IN  sum(S)

C9_BlockStructure ==
    pc = "done" =>
        /\ \A c \in Range(color_order) : Painted(c) => BlockWellFormed(c)
        /\ Cardinality(DabMoves) = SumDabs({c \in Range(color_order) : Painted(c)})

\* a block with a re-dip between its second and third dab, closed by the
\* end-of-run blot
C9_Witness ==
    /\ pc = "done"
    /\ CLEAN_AT_END
    /\ \E c \in Range(color_order) :
          /\ Painted(c)
          /\ Len(DabSeq(c)) >= 3
          /\ ReDipBefore(DabSeq(c), c, 3)
          /\ CleanAt(ReturnIdx(c) - 5, c)

(***************************************************************************)
(* C10: in the finished stream the comment lines that name a colour come   *)
(* block by block in paint order: the first is a header; a return is       *)
(* followed by the header of a colour later in the paint order; every      *)
(* other such line is followed by one of the same colour; and every X/Y    *)
(* move to a station's pickup, dip or blot position stands in the block of *)
(* that station's colour.                                                  *)
(***************************************************************************)
PaintOrder ==
    IF palette = "rgb6"
    THEN <<"black", "blue", "red", "green", "yellow", "white">>
    ELSE <<"yellow", "magenta", "cyan", "black">>

PaintPos(c) == CHOOSE k \in 1..Len(PaintOrder) : PaintOrder[k] = c

\* the index of the last line among lines[1..i] that names a colour, or 0
RECURSIVE LastNamed(_)
LastNamed(i) ==
    IF i = 0 THEN 0 ELSE IF lines[i].color # "" THEN i ELSE LastNamed(i - 1)

C10_BlocksInPaintOrder ==
    pc = "done" =>
        /\ \A j \in 1..Len(lines) :
              lines[j].color # "" =>
                  LET i == LastNamed(j - 1)
                  IN  IF i = 0 THEN lines[j].txt = "header"
                      ELSE IF lines[i].txt = "Return"
                      THEN /\ lines[j].txt = "header"
                           /\ PaintPos(lines[i].color) < PaintPos(lines[j].color)
                      ELSE /\ lines[j].color = lines[i].color
                           /\ lines[j].txt # "header"
        /\ \A j \in XYMoves(lines) :
              \A c \in Range(PaintOrder) :
                  <<lines[j].x, lines[j].y>> \in StationXYs(c) =>
                      LET i == LastNamed(j - 1)
                      IN  i > 0 /\ lines[i].color = c
        /\ \A c \in Range(PaintOrder) :
              Painted(c) => HeaderIdx(c) < ReturnIdx(c)

\* all four process colours painted: yellow, magenta, cyan, black
C10_Witness ==
    /\ pc = "done"
    /\ palette = "cmyk"
    /\ \A c \in {"yellow", "magenta", "cyan", "black"} : Painted(c)
    /\ ReturnIdx("yellow") < HeaderIdx("magenta")
    /\ ReturnIdx("magenta") < HeaderIdx("cyan")
    /\ ReturnIdx("cyan") < HeaderIdx("black")

(***************************************************************************)
(* C11: reading the frame of the stream.                                   *)
(***************************************************************************)
\* the index of the first line of s[i..] that is no comment, Len(s)+1 if none
RECURSIVE FirstWord(_, _)
FirstWord(s, i) ==
    IF i > Len(s) THEN i
    ELSE IF s[i].op # "comment" THEN i ELSE FirstWord(s, i + 1)

\* the stream opens, after its comment lines, with G21, G90, G94 and the
\* rapid to Z_TRAVEL, and no X/Y move stands before that rapid
OpensWithPreamble(s) ==
    LET k == FirstWord(s, 1)
    IN  /\ k + 3 <= Len(s)
        /\ s[k].op = "G21"
        /\ s[k + 1].op = "G90"
        /\ s[k + 2].op = "G94"
        /\ s[k + 3].op = "G0Z" /\ s[k + 3].z = Z_TRAVEL
        /\ \A j \in XYMoves(s) : j > k + 3

\* the stream closes with a Z move to Z_TRAVEL, the move to X0 Y0 and M2
ClosesWithPostamble(s) ==
    LET n == Len(s)
    IN  /\ n >= 3
        /\ s[n - 2].op = "G0Z" /\ s[n - 2].z = Z_TRAVEL
        /\ IsXY(s[n - 1]) /\ s[n - 1].x = 0 /\ s[n - 1].y = 0
        /\ s[n].op = "M2"
        /\ \A j \in 1..(n - 1) : s[j].op # "M2"

\* the tracked Z when the postamble begins
ZBeforePostamble(s) == s[LastZIdx(s, Len(s) - 3)].z

(***************************************************************************)
(* C11 as stated: the finished stream opens with G21, G90, G94 and a move  *)
(* to travel height before any X/Y move, and closes with a Z move to       *)
(* travel height that does not lower the tool, the move to X0 Y0 and M2    *)
(* as the last line.                                                       *)
(***************************************************************************)
C11_PostambleAscends ==
    pc = "done" =>
        /\ OpensWithPreamble(lines)
        /\ ClosesWithPostamble(lines)
        /\ ZBeforePostamble(lines) <= Z_TRAVEL

(***************************************************************************)
(* C11 amended: the finished stream opens with G21, G90, G94 and a move to *)
(* travel height before any X/Y move, and closes with a Z move to travel   *)
(* height, the move to X0 Y0 and M2 as the last line; the closing Z move   *)
(* leaves the tool at Z_TRAVEL when no colour was painted and lowers it    *)
(* from the last return's Z_SAFE to Z_TRAVEL when a colour was painted.    *)
(***************************************************************************)
C11_FrameOfStream ==
    pc = "done" =>
        /\ OpensWithPreamble(lines)
        /\ ClosesWithPostamble(lines)
        /\ ZBeforePostamble(lines) =
              IF \E c \in Range(color_order) : Painted(c)
              THEN Z_SAFE ELSE Z_TRAVEL

\* a finished stream with a painted colour: its postamble begins at Z_SAFE
C11_Witness ==
    /\ pc = "done"
    /\ \E c \in Range(color_order) : Painted(c)
    /\ ZBeforePostamble(lines) = Z_SAFE
    /\ lines[Len(lines)].op = "M2"

(***************************************************************************)
(* C12: the lines that descend to paint depth; each belongs to one dab.    *)
(***************************************************************************)
PaintDescents == {i \in 1..Len(lines) : IsZ(lines[i]) /\ lines[i].z = Z_PAINT}

\* lines[i-2..i+2] are exactly one dab at position xy
DabAround(i, xy) ==
    /\ i > 2 /\ i + 2 <= Len(lines)
    /\ lines[i - 2] = [Blank EXCEPT !.op = "G0XY", !.x = xy[1], !.y = xy[2],
                                    !.f = 2500]
    /\ lines[i - 1] = [Blank EXCEPT !.op = "G1Z", !.z = Z_PREPAINT, !.f = 600]
    /\ lines[i] = [Blank EXCEPT !.op = "G1Z", !.z = Z_PAINT, !.f = 600]
    /\ lines[i + 1] = [Blank EXCEPT !.op = "G4", !.p = 50]
    /\ lines[i + 2] = [Blank EXCEPT !.op = "G1Z", !.z = Z_TRAVEL, !.f = 600]

(***************************************************************************)
(* C12: every descent to paint depth in the stream is the third line of    *)
(* the sequence X/Y move, Z to pre-paint height, Z to paint depth, dwell,  *)
(* Z up to travel height; the dab just painted stands at the cell the loop *)
(* is at and ends the stream, so the tracked Z after it is Z_TRAVEL; and   *)
(* Z_PAINT < Z_PREPAINT <= Z_TRAVEL.                                       *)
(***************************************************************************)
C12_DabShape ==
    /\ Z_PAINT < Z_PREPAINT
    /\ Z_PREPAINT <= Z_TRAVEL
    /\ \A i \in PaintDescents :
          DabAround(i, <<lines[i - 2].x, lines[i - 2].y>>)
    /\ (pc = "dots" /\ last # <<>>) =>
          /\ last = xy_of_pixel(serp[si][1], serp[si][2])
          /\ DabAround(Len(lines) - 2, last)
          /\ lines[LastZIdx(lines, Len(lines))].z = Z_TRAVEL

\* the loop has just painted its second dab of a colour
C12_Witness ==
    /\ pc = "dots"
    /\ last # <<>>
    /\ dots_since = 2
    /\ DabAround(Len(lines) - 2, last)
    /\ DabAround(Len(lines) - 7, <<lines[Len(lines) - 9].x, lines[Len(lines) - 9].y>>)

(***************************************************************************)
(* C13: the grid the command line asks for.                                *)
(***************************************************************************)
\* the canvas rounds to zero columns or zero rows of the pitch
RequestedZero ==
    /\ args.dot_pitch_mm # 0
    /\ \/ int_round(usable_w, args.dot_pitch_mm) = 0
       \/ int_round(usable_h, args.dot_pitch_mm) = 0

(***************************************************************************)
(* C13 as stated: a run whose pitch is zero or negative, or whose canvas   *)
(* asks for zero columns or zero rows, never reaches gen_gcode and writes  *)
(* no output: no line of the stream is generated and the run is never at a *)
(* position inside or after gen_gcode.                                     *)
(***************************************************************************)
C13_InvalidGridRejected ==
    (args.dot_pitch_mm <= 0 \/ RequestedZero) =>
        /\ lines = <<>>
        /\ pc \notin {"gen", "color", "dots", "paint", "done", "written"}

(***************************************************************************)
(* C14 as stated: in the finished stream of either palette no dab stands   *)
(* at the position of a grid cell whose three channels are all at or above *)
(* WHITE_THRESHOLD, and no colour has such a cell among its points.        *)
(***************************************************************************)
C14_BackgroundNotPainted ==
    pc = "done" =>
        \A cell \in Cells(grid_cols, grid_rows) :
            is_background(im_resized[cell]) =>
                /\ \A c \in Range(color_order) : ~in_pts(cell, color_points[c])
                /\ \A i \in DabMoves :
                      <<lines[i].x, lines[i].y>> # xy_of_pixel(cell[1], cell[2])

(***************************************************************************)
(* C15: the fractions rgb_to_cmyk gives for the samples of the image.      *)
(***************************************************************************)
InUnit(q) == q[2] > 0 /\ 0 <= q[1] /\ q[1] <= q[2]

Max3(c) == Max(c[1], Max(c[2], c[3]))

CmykAsStated(c) ==
    LET f == rgb_to_cmyk(c[1], c[2], c[3])
        m == Max3(c)
    IN  /\ \A i \in 1..4 : InUnit(f[i])
        /\ (f[4] = <<1, 1>>) <=> (c = <<0, 0, 0>>)
        /\ c = <<0, 0, 0>> => f = <<(<<0, 1>>), <<0, 1>>, <<0, 1>>, <<1, 1>>>>
        /\ c # <<0, 0, 0>> =>
              /\ RSub(<<1, 1>>, f[4])[1] > 0
              /\ f[4] = Rat(255 - m, 255)
              /\ \A i \in 1..3 : f[i] = Rat(m - c[i], m)

(***************************************************************************)
(* C15: when the cmyk branch has converted the image, the four fractions   *)
(* of every cell's sample are in [0,1]; the black fraction is 1 exactly    *)
(* when the sample is (0,0,0), and then the other three are 0; otherwise   *)
(* the divisor 1-K is positive and C, M, Y are (max-r)/max, (max-g)/max,   *)
(* (max-b)/max, and the four channel planes hold these fractions.          *)
(***************************************************************************)
C15_CmykFractions ==
    (palette = "cmyk" /\ pc = "main" /\ im_resized # <<>>) =>
        \A cell \in DOMAIN im_resized :
            /\ CmykAsStated(im_resized[cell])
            /\ \A i \in 1..4 :
                  channel(im_resized, i)[cell] =
                      rgb_to_cmyk(im_resized[cell][1], im_resized[cell][2],
                                  im_resized[cell][3])[i]

\* the one cell is black: K = 1 and the black plane's dither sets it
C15_Witness ==
    /\ palette = "cmyk"
    /\ pc = "main"
    /\ grid_cols * grid_rows = 1
    /\ im_resized[<<0, 0>>] = <<0, 0, 0>>
    /\ rgb_to_cmyk(0, 0, 0)[4] = <<1, 1>>
    /\ dithered["black"][<<0, 0>>] = 1
    /\ dithered["cyan"][<<0, 0>>] = 0

(***************************************************************************)
(* C16: the coverage of a plane before and after the dither.               *)
(***************************************************************************)
\* the sum of the fractions of plane pl over the first k cells in row-major
\* order
RECURSIVE PlaneSum(_, _, _)
PlaneSum(pl, w, k) ==
    IF k = 0 THEN <<0, 1>>
    ELSE RAdd(PlaneSum(pl, w, k - 1), pl[<<(k - 1) % w, (k - 1) \div w>>])

Ones(out) == Cardinality({cell \in DOMAIN out : out[cell] = 1})

\* | sum of the input plane - number of ones of its dither |, for colour c
CoverageError(c) ==
    LET s == PlaneSum(channel(im_resized, channel_of(c)), grid_cols,
                      grid_cols * grid_rows)
        d == RSub(s, <<Ones(dithered[c]), 1>>)
    IN  <<Abs(d[1]), d[2]>>

Dithered == palette = "cmyk" /\ pc = "main" /\ im_resized # <<>>

(***************************************************************************)
(* C16 as stated: for each of the four planes the number of ones of the    *)
(* dither differs from the sum of the input fractions by at most h, the    *)
(* number of rows.                                                         *)
(***************************************************************************)
C16_WithinOneDabPerRow ==
    Dithered =>
        \A c \in Range(CMYK_keys) : RGe(<<grid_rows, 1>>, CoverageError(c))

(***************************************************************************)
(* C16 amended: for each of the four planes, w columns by h rows, the      *)
(* number of ones of the dither differs from the sum of the input          *)
(* fractions by at most (11h + 9w - 4)/32, half the weight of the error    *)
(* that the right, left and bottom edges drop; this is within h only when  *)
(* 9w <= 21h + 4.                                                          *)
(***************************************************************************)
C16_WithinDroppedEdgeError ==
    Dithered =>
        \A c \in Range(CMYK_keys) :
            /\ RGe(<<11 * grid_rows + 9 * grid_cols - 4, 32>>, CoverageError(c))
            /\ 9 * grid_cols <= 21 * grid_rows + 4 =>
                  RGe(<<grid_rows, 1>>, CoverageError(c))

\* a row of four cells of the grey (186,186,186): the black plane is the
\* constant 69/255, its sum 276/255 is above one and its dither sets no cell
C16_Witness ==
    /\ Dithered
    /\ grid_cols = 4 /\ grid_rows = 1
    /\ \A cell \in DOMAIN im_resized : im_resized[cell] = <<186, 186, 186>>
    /\ Ones(dithered["black"]) = 0
    /\ CoverageError("black") = <<92, 85>>

(***************************************************************************)
(* C17 as stated: for the palette of the run, the colours that have        *)
(* stations, their order, and every field of every station (pickup, dip    *)
(* and blot positions and depths, safe height, dwell times) are the same   *)
(* in the calibration-swatch generator and in the mixing-grid generator as *)
(* in the stations the core generator builds at line 234.                  *)
(***************************************************************************)
C17_StationsShared ==
    pc # "main" =>
        /\ swatch_PALETTES[palette] = PALETTES[palette]
        /\ mixing_PALETTES[palette] = PALETTES[palette]
        /\ swatch_make_stations(palette) = stations
        /\ mixing_make_stations(palette) = stations

(***************************************************************************)
(* C18: when main has built the stations and enters gen_gcode, for every   *)
(* station that make_stations gives, of both palettes, the safe height is  *)
(* strictly above the pickup depth, the dip depth, the blot depth and the  *)
(* paint depth; and every Z move of the finished stream that goes to one   *)
(* of these depths goes below the safe height of the run's stations, none  *)
(* going above it.                                                         *)
(***************************************************************************)
C18_SafeAboveDepths ==
    /\ pc = "gen" =>
          \A p \in DOMAIN PALETTES :
              \A c \in DOMAIN make_stations(p) :
                  LET st == make_stations(p)[c]
                  IN  /\ st.z_safe > st.z_pick
                      /\ st.z_safe > st.dip_z
                      /\ st.z_safe > st.blot_z
                      /\ st.z_safe > Z_PAINT
    /\ pc = "done" =>
          LET safes == {stations[c].z_safe : c \in DOMAIN stations}
              depths == UNION {{stations[c].z_pick, stations[c].dip_z,
                                stations[c].blot_z, Z_PAINT} :
                               c \in DOMAIN stations}
          IN  \A i \in 1..Len(lines) :
                  IsZ(lines[i]) =>
                      \A z_safe \in safes :
                          /\ lines[i].z <= z_safe
                          /\ lines[i].z \in depths => lines[i].z < z_safe

\* a finished cmyk stream in which black was picked up, dipped, blotted and
\* dabbed, each descent starting from the station's safe height
C18_Witness ==
    /\ pc = "done"
    /\ palette = "cmyk"
    /\ Painted("black")
    /\ PickupAt(HeaderIdx("black") + 1, "black")
    /\ DipAt(HeaderIdx("black") + 7, "black")
    /\ DabAt(HeaderIdx("black") + 18)
    /\ stations["black"].z_safe = 15
    /\ stations["black"].z_pick = -5

(***************************************************************************)
(* C19: the dabs of the stream since the brush was last conditioned.       *)
(***************************************************************************)
\* the index of the last "Dip" comment of the stream, 0 when there is none
RECURSIVE LastDipIdx(_)
LastDipIdx(i) ==
    IF i = 0 THEN 0
    ELSE IF lines[i].op = "comment" /\ lines[i].txt = "Dip" THEN i
    ELSE LastDipIdx(i - 1)

DabsSinceDip ==
    LET d == LastDipIdx(Len(lines))
    IN  Cardinality({i \in PaintDescents : i > d})

(***************************************************************************)
(* C19: while gen_gcode is in the dab loop of a colour, dots_since is the  *)
(* number of dabs in the stream since the last dip + blot and is at most   *)
(* RE_DIP_EVERY_N_DOTS; when a dab is about to be painted it is below      *)
(* RE_DIP_EVERY_N_DOTS and, when RE_DIP_AFTER_TRAVEL_MM is positive,       *)
(* travel_since is below RE_DIP_AFTER_TRAVEL_MM.                           *)
(***************************************************************************)
C19_CountersBelowThresholds ==
    /\ pc \in {"dots", "paint"} =>
          /\ dots_since = DabsSinceDip
          /\ dots_since <= RE_DIP_EVERY_N_DOTS
    /\ pc = "paint" =>
          /\ dots_since < RE_DIP_EVERY_N_DOTS
          /\ RE_DIP_AFTER_TRAVEL_MM > 0 =>
                travel_since < RE_DIP_AFTER_TRAVEL_MM * 100

\* the loop has painted RE_DIP_EVERY_N_DOTS dabs since the last dip, has
\* travelled since, and has a further cell of the colour to paint
C19_Witness ==
    /\ pc = "dots"
    /\ dots_since = RE_DIP_EVERY_N_DOTS
    /\ DabsSinceDip = RE_DIP_EVERY_N_DOTS
    /\ RE_DIP_AFTER_TRAVEL_MM > 0
    /\ travel_since > 0
    /\ dab_indices(si, color_points[color_order[ci]]) # {}

(***************************************************************************)
(* C20: the dabs of a colour's block against the cells assigned to it.     *)
(***************************************************************************)
\* the X/Y moves of the dabs between the header and the return of colour c
BlockDabs(c) ==
    {i \in DabMoves : HeaderIdx(c) < i /\ i < ReturnIdx(c)}

NoDuplicates(pts) == \A j, k \in 1..Len(pts) : pts[j] = pts[k] => j = k

AllInGrid(pts) == Range(pts) \subseteq Cells(grid_cols, grid_rows)

\* the assignment was made by main's colour reduction
FromReducer == im_resized # <<>> \/ dithered # <<>>

(***************************************************************************)
(* C20: in the finished stream, the block of every colour that has points  *)
(* holds one dab at the position of each cell of the grid that is among    *)
(* the colour's points, however often it is listed, and no other dab; its  *)
(* header announces the length of the list, which is the number of the     *)
(* block's dabs when the list has no duplicates and no cell outside the    *)
(* grid; the lists that main's colour reduction makes are of that kind;    *)
(* and every dab of the stream is in the block of such a colour.           *)
(***************************************************************************)
C20_OneDabPerAssignedCell ==
    pc = "done" =>
        /\ \A c \in Range(color_order) :
              Painted(c) =>
                  LET pts == color_points[c]
                      D == BlockDabs(c)
                  IN  /\ \A cell \in Cells(grid_cols, grid_rows) :
                            Cardinality({i \in D : <<lines[i].x, lines[i].y>> =
                                                   xy_of_pixel(cell[1], cell[2])})
                               = IF in_pts(cell, pts) THEN 1 ELSE 0
                      /\ Cardinality(D) = Cardinality(GridPoints(c))
                      /\ lines[HeaderIdx(c)].n = Len(pts)
                      /\ (NoDuplicates(pts) /\ AllInGrid(pts)) =>
                            lines[HeaderIdx(c)].n = Cardinality(D)
                      /\ FromReducer => NoDuplicates(pts) /\ AllInGrid(pts)
        /\ \A i \in DabMoves :
              \E c \in Range(color_order) : Painted(c) /\ i \in BlockDabs(c)

\* gen_gcode was called with a cell listed twice and a cell outside the
\* grid for its first colour: the header announces 2 dots, the block holds
\* 1 dab
C20_Witness ==
    /\ pc = "done"
    /\ ~FromReducer
    /\ \E c \in Range(color_order) :
          /\ color_points[c] = <<(<<1, 0>>), <<2, 0>>>>
          /\ lines[HeaderIdx(c)].n = 2
          /\ Cardinality(BlockDabs(c)) = 1
    /\ \E c \in Range(color_order) :
          /\ color_points[c] = <<(<<0, 0>>), <<0, 0>>>>
          /\ Cardinality(BlockDabs(c)) = 1

(***************************************************************************)
(* C21: the dither against its input plane.                                *)
(***************************************************************************)
IsBinary(pl) == \A cell \in DOMAIN pl : pl[cell] \in {<<0, 1>>, <<1, 1>>}

\* a plane of 0/1 as a plane of fractions
AsFractions(out) == [cell \in DOMAIN out |-> <<out[cell], 1>>]

DitherAsStated(c) ==
    LET img_chan == channel(im_resized, channel_of(c))
        objects == fs_objects(img_chan, grid_cols, grid_rows)
        out == floyd_steinberg_dither_channel(img_chan, grid_cols, grid_rows)
    IN  /\ dithered[c] = out
        /\ DOMAIN out = DOMAIN img_chan
        /\ \A cell \in DOMAIN out : out[cell] \in {0, 1}
        /\ objects["img_chan"] = img_chan
        /\ IsBinary(img_chan) =>
              /\ AsFractions(out) = img_chan
              /\ objects["arr"] = img_chan
        /\ floyd_steinberg_dither_channel(AsFractions(out), grid_cols,
                                          grid_rows) = out

(***************************************************************************)
(* C21: when the cmyk branch has dithered the four planes, each dithered   *)
(* plane holds only 0 and 1, over the cells of its input; the caller's     *)
(* input plane is as it was before the call; when every input value is 0   *)
(* or 1 the output equals the input and the working copy was never         *)
(* changed, no error being diffused; and the dither of the dithered plane  *)
(* is the dithered plane.                                                  *)
(***************************************************************************)
C21_DitherBinaryIdentity ==
    Dithered => \A c \in Range(CMYK_keys) : DitherAsStated(c)

\* a grid of several cells, some orange and some grey: the yellow plane is
\* binary with zeros and ones and dithers to itself, while the black plane
\* is fractional and its working copy was changed by the diffusion
C21_Witness ==
    /\ Dithered
    /\ grid_cols * grid_rows > 1
    /\ LET yel == channel(im_resized, channel_of("yellow"))
           blk == channel(im_resized, channel_of("black"))
       IN  /\ IsBinary(yel)
           /\ \E a, b \in DOMAIN yel : yel[a] = <<0, 1>> /\ yel[b] = <<1, 1>>
           /\ AsFractions(dithered["yellow"]) = yel
           /\ ~IsBinary(blk)
           /\ fs_objects(blk, grid_cols, grid_rows)["arr"] # blk
           /\ fs_objects(blk, grid_cols, grid_rows)["img_chan"] = blk

====
